---- MODULE Spec2Model ----
(***************************************************************************)
(* Model of the notebook Example_code_FFL_Review.ipynb: a linear script    *)
(* that builds a five-row credit dataset, drops the columns gender and     *)
(* race, computes a Pearson correlation matrix, prints a dictionary of     *)
(* variable justifications, splits the data, fits a logistic regression,   *)
(* scores it on the test rows and prints a message when the accuracy is    *)
(* below 0.75.  The notebook can be executed again from the top; the       *)
(* executions completed so far are kept in `runs`.                         *)
(*                                                                         *)
(* The library calls are modelled by what they compute.  The pseudo-random *)
(* permutation drawn by train_test_split for a seed, and the label that a  *)
(* classifier fitted on given training data predicts for given test rows,  *)
(* are deterministic functions whose values the notebook does not fix:     *)
(* `rng` and `clf` hold the values of these functions that have been       *)
(* observed, and a value is chosen freely the first time it is needed.     *)
(***************************************************************************)
EXTENDS Integers, Sequences, FiniteSets, TLC

VARIABLES pc, df, df_clean, correlations, variable_documentation,
          X, y, split, model, y_pred, accuracy, stdout, rng, clf, runs

vars == <<pc, df, df_clean, correlations, variable_documentation,
          X, y, split, model, y_pred, accuracy, stdout, rng, clf, runs>>

-----------------------------------------------------------------------------
(* Bounds of the model.                                                    *)

\* Number of completed executions of the notebook that are remembered.
MaxRuns == 2

\* Seeds the operating system may hand out when no random_state is given.
EntropySeeds == {7, 42}

-----------------------------------------------------------------------------
(* Generic helpers.                                                        *)

Range(s) == {s[i] : i \in DOMAIN s}

RECURSIVE SumSeq(_)
SumSeq(s) == IF s = <<>> THEN 0 ELSE Head(s) + SumSeq(Tail(s))

-----------------------------------------------------------------------------
(* The literal dataset (cell 2).                                           *)

income_values       == <<45000, 54000, 60000, 67000, 75000>>
credit_score_values == <<620, 650, 700, 750, 800>>
age_values          == <<25, 40, 35, 50, 60>>
loan_amount_values  == <<20000, 25000, 30000, 35000, 40000>>
gender_values       == <<"male", "female", "female", "male", "female">>
race_values         == <<"Caucasian", "African American", "Caucasian",
                         "Hispanic", "Caucasian">>
approved_values     == <<1, 0, 1, 1, 0>>

\* Values of the two prohibited columns an execution is run with: the
\* literal ones, and the literal ones with the labels exchanged.
GenderInputs ==
    {gender_values, [i \in DOMAIN gender_values |-> IF gender_values[i] = "male"
                                    THEN "female" ELSE "male"]}

RaceInputs ==
    {race_values, [i \in DOMAIN race_values |-> IF race_values[i] = "Caucasian"
                                  THEN "Hispanic" ELSE "Caucasian"]}

\* The dict without its 'race' entry.
data_without_race(gender, race) ==
    << <<"income", income_values>>,
       <<"credit_score", credit_score_values>>,
       <<"age", age_values>>,
       <<"loan_amount", loan_amount_values>>,
       <<"gender", gender>>,
       <<"approved", approved_values>> >>

\* The dict `data`, in insertion order, as a sequence of <<key, list>>.
data(gender, race) ==
    << <<"income", income_values>>,
       <<"credit_score", credit_score_values>>,
       <<"age", age_values>>,
       <<"loan_amount", loan_amount_values>>,
       <<"gender", gender>>,
       <<"race", race>>,
       <<"approved", approved_values>> >>

-----------------------------------------------------------------------------
(* pandas: a DataFrame is its column labels in order, its row labels in    *)
(* order, and one list of cells per column.                                *)

NoFrame == [columns |-> <<>>, index |-> <<>>, cells |-> <<>>]

\* pd.DataFrame(dict): one column per key in insertion order, RangeIndex.
DataFrame(d) ==
    [columns |-> [i \in 1..Len(d) |-> d[i][1]],
     index   |-> [i \in 1..Len(d[1][2]) |-> i - 1],
     cells   |-> [i \in 1..Len(d) |-> d[i][2]]]

ColPos(frame, c) == CHOOSE i \in 1..Len(frame.columns) : frame.columns[i] = c

Column(frame, c) == frame.cells[ColPos(frame, c)]

ColumnSet(frame) == Range(frame.columns)

NRows(frame) == Len(frame.index)

RECURSIVE KeepPositions(_, _, _)
KeepPositions(s, keep, i) ==
    IF i > Len(s) THEN <<>>
    ELSE IF i \in keep THEN <<s[i]>> \o KeepPositions(s, keep, i + 1)
         ELSE KeepPositions(s, keep, i + 1)

\* frame.drop(columns=labels): the other columns, order and cells kept.
Drop(frame, labels) ==
    LET keep == {i \in 1..Len(frame.columns) : frame.columns[i] \notin labels}
    IN  [columns |-> KeepPositions(frame.columns, keep, 1),
         index   |-> frame.index,
         cells   |-> KeepPositions(frame.cells, keep, 1)]

\* frame[[labels]]: the named columns in the order named.
Select(frame, labels) ==
    [columns |-> labels,
     index   |-> frame.index,
     cells   |-> [i \in 1..Len(labels) |-> Column(frame, labels[i])]]

\* frame[label]: a Series.
Series(frame, label) ==
    [name |-> label, index |-> frame.index, values |-> Column(frame, label)]

\* Rows at the given positions (1-based), in the given order.
TakeRows(frame, pos) ==
    [columns |-> frame.columns,
     index   |-> [k \in 1..Len(pos) |-> frame.index[pos[k]]],
     cells   |-> [i \in 1..Len(frame.cells) |->
                    [k \in 1..Len(pos) |-> frame.cells[i][pos[k]]]]]

TakeValues(series, pos) ==
    [name   |-> series.name,
     index  |-> [k \in 1..Len(pos) |-> series.index[pos[k]]],
     values |-> [k \in 1..Len(pos) |-> series.values[pos[k]]]]

-----------------------------------------------------------------------------
(* Step 2: DataFrame.corr(), the Pearson correlation of every pair of      *)
(* columns.  An entry is kept exactly, as the three sums it is made of:    *)
(* its value is covxy / sqrt(ssqdm_x * ssqdm_y).  The five literal values  *)
(* of every numeric column add up to a multiple of five, so the mean is    *)
(* an integer.                                                             *)

Mean(s) == SumSeq(s) \div Len(s)

SumProdDev(s, t) ==
    SumSeq([i \in 1..Len(s) |-> (s[i] - Mean(s)) * (t[i] - Mean(t))])

\* The covariance normalised by the spread of the first column only.
PearsonOneSided(s, t) ==
    [covxy   |-> SumProdDev(s, t),
     ssqdm_x |-> SumProdDev(s, s),
     ssqdm_y |-> SumProdDev(s, s)]

Pearson(s, t) ==
    [covxy   |-> SumProdDev(s, t),
     ssqdm_x |-> SumProdDev(s, s),
     ssqdm_y |-> SumProdDev(t, t)]

Corr(frame) ==
    [columns |-> frame.columns,
     value   |-> [a \in ColumnSet(frame) |-> [b \in ColumnSet(frame) |->
                    Pearson(Column(frame, a), Column(frame, b))]]]

corr_columns == <<"income", "credit_score", "age", "loan_amount">>

-----------------------------------------------------------------------------
(* Step 3: the dict of justifications, in insertion order.                 *)

documentation ==
    << <<"income", "Represents the borrower's ability to repay the loan. It is not a proxy for race or gender.">>,
       <<"credit_score", "A commonly used metric in assessing credit risk, not discriminatory.">>,
       <<"age", "Age is a neutral factor that is not prohibited under Fair Lending laws.">>,
       <<"loan_amount", "The loan amount requested is a non-discriminatory factor for loan approval.">> >>

Keys(d) == {d[i][1] : i \in DOMAIN d}

-----------------------------------------------------------------------------
(* Step 4: train_test_split, LogisticRegression, accuracy_score.           *)

\* test_size = 0.2, in hundredths.
test_size_pct == 20

random_state == 42

\* The placeholder threshold 0.75, in hundredths.
threshold_pct == 75

\* The ceiling taken as floor + 1, wrong when the product is whole.
NTestFloorPlusOne(n) == (test_size_pct * n) \div 100 + 1

\* sklearn: n_test = ceil(test_size * n_samples).
NTest(n) == (test_size_pct * n + 99) \div 100

\* sklearn check_random_state: the seed given, or one drawn from the
\* operating system (here `entropy`) when none is given.
\* The seed given is ignored.
check_random_state_unseeded(seed, entropy) == entropy

\* A seed is <<n>>, no seed is <<>>.
check_random_state(seed, entropy) == IF seed = <<>> THEN entropy ELSE seed[1]

SubSeqOrEmpty(s, a, b) == [k \in 1..(b - a + 1) |-> s[a + k - 1]]

\* The two parts exchanged.
ShuffleSplitSwapped(perm, n) ==
    [test  |-> SubSeqOrEmpty(perm, NTest(n) + 1, n),
     train |-> SubSeqOrEmpty(perm, 1, NTest(n))]

\* ShuffleSplit: the first n_test positions of the permutation are the test
\* rows, the following n_train the training rows.
ShuffleSplit(perm, n) ==
    [test  |-> SubSeqOrEmpty(perm, 1, NTest(n)),
     train |-> SubSeqOrEmpty(perm, NTest(n) + 1, n)]

\* The classes a fitted LogisticRegression can predict: those of y_train.
Classes(labels) == Range(labels)

\* accuracy_score: the fraction of positions where the two agree.
accuracy_score(y_true, pred) ==
    [num |-> Cardinality({k \in 1..Len(pred) : y_true[k] = pred[k]}),
     den |-> Len(pred)]

\* The comparison reversed.
AboveThreshold(acc) == acc.num * 100 > threshold_pct * acc.den

\* accuracy < 0.75
BelowThreshold(acc) == acc.num * 100 < threshold_pct * acc.den

DIMessage == "Disparate Impact detected, applying fairness mitigation..."

Printed(cell, obj) == [cell |-> cell, obj |-> obj]

-----------------------------------------------------------------------------
(* The state before the first cell of an execution has run.                *)

NoSeries == [name |-> "", index |-> <<>>, values |-> <<>>]
NoCorr   == [columns |-> <<>>, value |-> <<>>]
NoModel  == [fitted |-> FALSE, X |-> NoFrame, y |-> NoSeries]
NoScore  == [num |-> 0, den |-> 0]
Nothing  == [k \in {} |-> 0]

Init ==
    /\ pc = "start"
    /\ df = NoFrame
    /\ df_clean = NoFrame
    /\ correlations = NoCorr
    /\ variable_documentation = <<>>
    /\ X = NoFrame
    /\ y = NoSeries
    /\ split = [X_train |-> NoFrame, X_test |-> NoFrame,
                y_train |-> NoSeries, y_test |-> NoSeries]
    /\ model = NoModel
    /\ y_pred = <<>>
    /\ accuracy = NoScore
    /\ stdout = <<>>
    /\ rng = Nothing
    /\ clf = Nothing
    /\ runs = <<>>

-----------------------------------------------------------------------------
(* Cell 2: data, df and step 1.                                            *)

\* data = {...}; df = pd.DataFrame(data)
CreateDataset ==
    /\ pc = "start"
    /\ \E gender \in GenderInputs, race \in RaceInputs :
          df' = DataFrame(data(gender, race))
    /\ pc' = "step1"
    /\ UNCHANGED <<df_clean, correlations, variable_documentation, X, y,
                   split, model, y_pred, accuracy, stdout, rng, clf, runs>>

\* The prohibited variables the introduction of the notebook names.
prohibited_named == {"race", "gender", "age"}

\* The column age is dropped as well.
prohibited_with_age == {"gender", "race", "age"}

\* Only one of the two labels is dropped.
prohibited_gender_only == {"gender"}

\* Only the other one is dropped.
prohibited_race_only == {"race"}

\* The labels step 1 drops.
prohibited_dropped == {"gender", "race"}

\* df_clean = df.drop(columns=['gender', 'race']); print(...); print(df_clean)
RemoveProhibited ==
    /\ pc = "step1"
    /\ df_clean' = Drop(df, prohibited_dropped)
    /\ stdout' = stdout \o
          << Printed(2, "Cleaned dataset (after removing prohibited variables):"),
             Printed(2, df_clean') >>
    /\ pc' = "step2"
    /\ UNCHANGED <<df, correlations, variable_documentation, X, y,
                   split, model, y_pred, accuracy, rng, clf, runs>>

(* Cell 3: step 2.                                                         *)
\* correlations = df[[...]].corr(); print(...); print(correlations)
Correlate ==
    /\ pc = "step2"
    /\ correlations' = Corr(Select(df, corr_columns))
    /\ stdout' = stdout \o
          << Printed(3, "\nCorrelation matrix to identify proxy variables:"),
             Printed(3, correlations') >>
    /\ pc' = "step3"
    /\ UNCHANGED <<df, df_clean, variable_documentation, X, y,
                   split, model, y_pred, accuracy, rng, clf, runs>>

(* Cell 4: step 3.                                                         *)
\* variable_documentation = {...}; print(...); one line per item
DocumentVariables ==
    /\ pc = "step3"
    /\ variable_documentation' = documentation
    /\ stdout' = stdout \o
          << Printed(4, "\nVariable documentation and justification:") >> \o
          [i \in 1..Len(documentation) |->
              Printed(4, documentation[i][1] \o ": " \o documentation[i][2])]
    /\ pc' = "features"
    /\ UNCHANGED <<df, df_clean, correlations, X, y,
                   split, model, y_pred, accuracy, rng, clf, runs>>

(* Cell 5: step 4.                                                         *)
\* X = df_clean.drop(columns=['approved']); y = df_clean['approved']
PrepareFeatures ==
    /\ pc = "features"
    /\ X' = Drop(df_clean, {"approved"})
    /\ y' = Series(df_clean, "approved")
    /\ pc' = "split"
    /\ UNCHANGED <<df, df_clean, correlations, variable_documentation,
                   split, model, y_pred, accuracy, stdout, rng, clf, runs>>

\* The rows of a split, given the permutation the generator produced.
SplitRows(perm) ==
    LET ind == ShuffleSplit(perm, NRows(X))
    IN  [X_train |-> TakeRows(X, ind.train),
         X_test  |-> TakeRows(X, ind.test),
         y_train |-> TakeValues(y, ind.train),
         y_test  |-> TakeValues(y, ind.test)]

\* X_train, X_test, y_train, y_test =
\*     train_test_split(X, y, test_size=0.2, random_state=42)
TrainTestSplit ==
    /\ pc = "split"
    /\ \E entropy \in EntropySeeds :
          LET key == <<check_random_state(<<random_state>>, entropy), NRows(X)>>
          IN  \E perm \in Permutations(1..NRows(X)) :
                 /\ key \in DOMAIN rng => perm = rng[key]
                 /\ rng' = IF key \in DOMAIN rng THEN rng
                           ELSE rng @@ (key :> perm)
                 /\ split' = SplitRows(perm)
    /\ pc' = "fit"
    /\ UNCHANGED <<df, df_clean, correlations, variable_documentation, X, y,
                   model, y_pred, accuracy, stdout, clf, runs>>

\* model = LogisticRegression(); model.fit(X_train, y_train)
\* fit raises ValueError when y_train holds a single class.
Fit ==
    /\ pc = "fit"
    /\ IF Cardinality(Classes(split.y_train.values)) < 2
       THEN /\ pc' = "error"
            /\ UNCHANGED model
       ELSE /\ pc' = "predict"
            /\ model' = [fitted |-> TRUE, X |-> split.X_train,
                         y |-> split.y_train]
    /\ UNCHANGED <<df, df_clean, correlations, variable_documentation, X, y,
                   split, y_pred, accuracy, stdout, rng, clf, runs>>

\* y_pred = model.predict(X_test)
Predict ==
    /\ pc = "predict"
    /\ LET key == [model |-> model, X_test |-> split.X_test]
       IN  \E labels \in [1..NRows(split.X_test) -> Classes(model.y.values)] :
              /\ key \in DOMAIN clf => labels = clf[key]
              /\ clf' = IF key \in DOMAIN clf THEN clf
                        ELSE clf @@ (key :> labels)
              /\ y_pred' = labels
    /\ pc' = "score"
    /\ UNCHANGED <<df, df_clean, correlations, variable_documentation, X, y,
                   split, model, accuracy, stdout, rng, runs>>

\* accuracy = accuracy_score(y_test, y_pred)
Score ==
    /\ pc = "score"
    /\ accuracy' = accuracy_score(split.y_test.values, y_pred)
    /\ pc' = "threshold"
    /\ UNCHANGED <<df, df_clean, correlations, variable_documentation, X, y,
                   split, model, y_pred, stdout, rng, clf, runs>>

\* What a cell has printed.
CellOutput(out, cell) == SelectSeq(out, LAMBDA e : e.cell = cell)

\* The record of a completed execution.
Execution(out) ==
    [df |-> df, X |-> X, y |-> y, split |-> split, accuracy |-> accuracy,
     output |-> CellOutput(out, 5)]

\* if accuracy < 0.75: print("Disparate Impact detected, ...")
DisparateImpactCheck ==
    /\ pc = "threshold"
    /\ stdout' = IF BelowThreshold(accuracy)
                 THEN Append(stdout, Printed(5, DIMessage))
                 ELSE stdout
    /\ runs' = Append(runs, Execution(stdout'))
    /\ pc' = "done"
    /\ UNCHANGED <<df, df_clean, correlations, variable_documentation, X, y,
                   split, model, y_pred, accuracy, rng, clf>>

\* The notebook is executed again from the top in a fresh kernel.
RunAgain ==
    /\ pc \in {"done", "error"}
    /\ Len(runs) < MaxRuns
    /\ pc' = "start"
    /\ df' = NoFrame
    /\ df_clean' = NoFrame
    /\ correlations' = NoCorr
    /\ variable_documentation' = <<>>
    /\ X' = NoFrame
    /\ y' = NoSeries
    /\ split' = [X_train |-> NoFrame, X_test |-> NoFrame,
                 y_train |-> NoSeries, y_test |-> NoSeries]
    /\ model' = NoModel
    /\ y_pred' = <<>>
    /\ accuracy' = NoScore
    /\ stdout' = <<>>
    /\ UNCHANGED <<rng, clf, runs>>

Next ==
    \/ CreateDataset
    \/ RemoveProhibited
    \/ Correlate
    \/ DocumentVariables
    \/ PrepareFeatures
    \/ TrainTestSplit
    \/ Fit
    \/ Predict
    \/ Score
    \/ DisparateImpactCheck
    \/ RunAgain

Spec == Init /\ [][Next]_vars

-----------------------------------------------------------------------------
(* Positions of an execution.                                              *)

AfterStep1    == pc \notin {"start", "step1"}
AfterStep2    == pc \notin {"start", "step1", "step2"}
AfterFeatures == pc \in {"split", "fit", "predict", "score", "threshold",
                         "done", "error"}
AfterSplit    == pc \in {"fit", "predict", "score", "threshold", "done",
                         "error"}
AfterScore    == pc \in {"threshold", "done"}

-----------------------------------------------------------------------------
(* C1.  Step 1 leaves exactly the columns income, credit_score, age,       *)
(* loan_amount, approved, in that order, keeps the five rows, and every    *)
(* remaining cell has the value it has in the original dataset.            *)
C1_CleanColumns ==
    AfterStep1 =>
       /\ df_clean.columns =
             <<"income", "credit_score", "age", "loan_amount", "approved">>
       /\ df_clean.index = <<0, 1, 2, 3, 4>>
       /\ df_clean.index = df.index
       /\ Len(df_clean.cells) = Len(df_clean.columns)
       /\ \A i \in 1..Len(df_clean.columns) :
             df_clean.cells[i] = Column(df, df_clean.columns[i])
       /\ Column(df_clean, "income") = income_values
       /\ Column(df_clean, "credit_score") = credit_score_values
       /\ Column(df_clean, "age") = age_values
       /\ Column(df_clean, "loan_amount") = loan_amount_values
       /\ Column(df_clean, "approved") = approved_values

C1_Witness ==
    /\ pc = "step2"
    /\ "gender" \in ColumnSet(df)
    /\ "race" \in ColumnSet(df)
    /\ Len(df_clean.columns) = 5
    /\ Len(stdout) = 2

(* C2.  None of the prohibited variables the notebook names (race,         *)
(* gender, age) is a column of the feature matrix X the model is fitted    *)
(* on.  The code keeps age.                                                *)
C2_NoProhibitedFeature ==
    AfterFeatures => ColumnSet(X) \cap prohibited_named = {}

(* C3.  Step 4 prints the message "Disparate Impact detected, applying     *)
(* fairness mitigation..." if and only if the accuracy is strictly below   *)
(* 0.75, and prints nothing otherwise.                                     *)
C3_MessageIffBelow ==
    pc = "done" =>
       /\ accuracy.den > 0
       /\ accuracy.num * 4 < accuracy.den * 3
             => CellOutput(stdout, 5) = <<Printed(5, DIMessage)>>
       /\ accuracy.num * 4 >= accuracy.den * 3
             => CellOutput(stdout, 5) = <<>>

C3_Witness ==
    /\ pc = "done"
    /\ accuracy.num = 0
    /\ accuracy.den = 1
    /\ stdout[Len(stdout)] = Printed(5, DIMessage)

(* C4.  The split yields one test row and four training rows, disjoint     *)
(* and together the five rows of X and y, and every execution selects the  *)
(* same test row.                                                          *)
C4_SplitOneFour ==
    AfterSplit =>
       LET test  == split.X_test.index
           train == split.X_train.index
       IN  /\ Len(test) = 1
           /\ Len(train) = 4
           /\ Range(test) \cap Range(train) = {}
           /\ Cardinality(Range(train)) = 4
           /\ Range(test) \cup Range(train) = Range(X.index)
           /\ split.y_test.index = test
           /\ split.y_train.index = train
           /\ \A i \in 1..Len(X.columns) :
                 /\ \A k \in 1..Len(test) :
                       split.X_test.cells[i][k] = X.cells[i][test[k] + 1]
                 /\ \A k \in 1..Len(train) :
                       split.X_train.cells[i][k] = X.cells[i][train[k] + 1]
           /\ \A k \in 1..Len(test) :
                 split.y_test.values[k] = y.values[test[k] + 1]
           /\ \A k \in 1..Len(train) :
                 split.y_train.values[k] = y.values[train[k] + 1]
           /\ \A r \in 1..Len(runs) : runs[r].split.X_test.index = test

C4_Witness ==
    /\ pc = "fit"
    /\ Len(runs) = 1
    /\ Len(split.X_test.index) = 1

(* C5.  The accuracy on the single test row is 0.0 or 1.0, never a value   *)
(* strictly between them.                                                  *)
C5_AccuracyZeroOrOne ==
    AfterScore =>
       /\ accuracy.den > 0
       /\ accuracy.num = 0 \/ accuracy.num = accuracy.den

C5_Witness ==
    /\ pc = "threshold"
    /\ accuracy.num = 1
    /\ Len(y_pred) = 1
    /\ y_pred = split.y_test.values

(* C6.  As stated: the record set has six columns and five rows.           *)
C6_SixColumns ==
    pc # "start" => Len(df.columns) = 6 /\ NRows(df) = 5

(* C6, amended.  The record set has seven columns (income, credit_score,   *)
(* age, loan_amount, gender, race, approved) and five rows.                *)
C6_SevenColumns ==
    pc # "start" =>
       /\ Len(df.columns) = 7
       /\ ColumnSet(df) = {"income", "credit_score", "age", "loan_amount",
                           "gender", "race", "approved"}
       /\ NRows(df) = 5
       /\ Len(df.cells) = 7
       /\ \A i \in 1..Len(df.cells) : Len(df.cells[i]) = 5

C6_Witness ==
    /\ pc = "step1"
    /\ df.columns[5] = "gender"
    /\ df.index = <<0, 1, 2, 3, 4>>

(* C7.  The columns of X, the keys of variable_documentation and the       *)
(* columns of the correlation matrix are the same set.                     *)
C7_DocumentedFeatures ==
    AfterFeatures =>
       /\ ColumnSet(X) = Keys(variable_documentation)
       /\ ColumnSet(X) = Range(correlations.columns)
       /\ ColumnSet(X) = DOMAIN correlations.value

C7_Witness ==
    /\ pc = "split"
    /\ Cardinality(ColumnSet(X)) = 4
    /\ Len(variable_documentation) = 4

\* Two entries have the same value.
SameCorrelation(e, f) ==
    /\ e.covxy = f.covxy
    /\ \/ e.ssqdm_x = f.ssqdm_x /\ e.ssqdm_y = f.ssqdm_y
       \/ e.ssqdm_x = f.ssqdm_y /\ e.ssqdm_y = f.ssqdm_x

\* An entry has the value 1.
UnitCorrelation(e) ==
    /\ e.covxy > 0
    /\ e.covxy = e.ssqdm_x
    /\ e.covxy = e.ssqdm_y

(* C8.  The 4x4 correlation matrix over income, credit_score, age and      *)
(* loan_amount is symmetric and every diagonal entry is 1.                 *)
C8_SymmetricUnitDiagonal ==
    AfterStep2 =>
       /\ DOMAIN correlations.value =
             {"income", "credit_score", "age", "loan_amount"}
       /\ \A a \in DOMAIN correlations.value :
             /\ DOMAIN correlations.value[a] = DOMAIN correlations.value
             /\ UnitCorrelation(correlations.value[a][a])
             /\ \A b \in DOMAIN correlations.value :
                   SameCorrelation(correlations.value[a][b],
                                   correlations.value[b][a])

C8_Witness ==
    /\ pc = "step3"
    /\ correlations.value["income"]["age"].covxy > 0
    /\ correlations.value["income"]["age"].ssqdm_x
          # correlations.value["income"]["age"].ssqdm_y
    /\ \A c \in Range(corr_columns) :
          Len(Column(df, c)) * Mean(Column(df, c)) = SumSeq(Column(df, c))

\* Two datasets differ at most in the values of gender and race.
SameButProhibited(d, e) ==
    Drop(d, {"gender", "race"}) = Drop(e, {"gender", "race"})

(* C9.  Two executions whose datasets differ only in the values of gender  *)
(* and race have the same X and y, the same split, the same accuracy and   *)
(* the same step-4 output.                                                 *)
C9_ProhibitedDoNotDecide ==
    \A i, j \in 1..Len(runs) :
       SameButProhibited(runs[i].df, runs[j].df) =>
          /\ runs[i].X = runs[j].X
          /\ runs[i].y = runs[j].y
          /\ runs[i].split = runs[j].split
          /\ runs[i].accuracy = runs[j].accuracy
          /\ runs[i].output = runs[j].output

C9_Witness ==
    /\ Len(runs) = 2
    /\ Column(runs[1].df, "gender") # Column(runs[2].df, "gender")
    /\ Column(runs[1].df, "race") # Column(runs[2].df, "race")
    /\ SameButProhibited(runs[1].df, runs[2].df)
    /\ runs[1].output = <<Printed(5, DIMessage)>>

(* C10.  Whichever row is the test row, the four training labels contain   *)
(* a 0 and a 1: fit is never called on a single-class training set.        *)
C10_TwoClassesInTraining ==
    /\ pc # "error"
    /\ AfterSplit =>
          /\ Len(split.y_train.values) = 4
          /\ {0, 1} \subseteq Range(split.y_train.values)

C10_Witness ==
    /\ pc = "predict"
    /\ model.fitted
    /\ split.y_test.values = <<0>>
    /\ Cardinality({k \in 1..4 : split.y_train.values[k] = 0}) = 1

====
